---- MODULE Spec2Model ----
(***************************************************************************)
(* bitcointool (src/src/tools/bitcointool.c): main() as a state machine.   *)
(* A state is the position of main (pc), the option variables it has       *)
(* parsed, the elliptic-curve context's start/stop history, what was       *)
(* printed, which library calls were made, the heap objects of the sign    *)
(* command, and the buffers that still hold secret material.               *)
(*                                                                         *)
(* Strings are sequences of one-character strings.  Calls into the libbtc  *)
(* library (hd_derive, btc_privkey_decode_wif, btc_tx_sign_input, ...)     *)
(* are outside this file: their result is chosen nondeterministically at   *)
(* the call, and the code's branch on that result is modelled.             *)
(***************************************************************************)
EXTENDS Integers, Sequences, FiniteSets, TLC

(***************************************************************************)
(* Bounds of the model.                                                    *)
(***************************************************************************)
\* free-form key paths are all strings over Alphabet of at most this length
MaxLen == 4
\* key paths whose range is wider than this are not fed to the model
MaxRange == 3
\* how many indeterminate bytes a reader of keypathnew is followed past the
\* copy; the code sets no limit, the read ends at the first zero byte
MaxGarbage == 6
\* the transaction of the sign command has at most this many inputs
MaxInputs == 2
\* rounds of the crack command's endless loop that are followed
MaxRounds == 2

(***************************************************************************)
(* Program constants.                                                      *)
(***************************************************************************)
\* unsigned int maxlen = 1024;
maxlen == 1024
\* char buf[9] / char index[9]: a numeral of 9 or more characters is refused
NumBuf == 9
\* strlen(pkey) < 50 / strlen(pkey) > 50
WifLen == 50
\* strlen(txhex) > 1024*100
MaxTxHex == 1024 * 100
\* strlen(scripthex) != 128 in comp2der
CompactHexLen == 128

(***************************************************************************)
(* Characters and decimal numerals.                                        *)
(***************************************************************************)
\* static char digits[] = "0123456789";
digits == <<"0", "1", "2", "3", "4", "5", "6", "7", "8", "9">>

\* strchr(digits, c) for a character c of the string (never the NUL)
IsDigit(c) == \E k \in 1..Len(digits) : digits[k] = c

DigitVal(c) == (CHOOSE k \in 1..Len(digits) : digits[k] = c) - 1

RECURSIVE ParseDigits(_, _)
ParseDigits(s, acc) ==
    IF s = <<>> \/ ~IsDigit(Head(s))
    THEN acc
    ELSE ParseDigits(Tail(s), acc * 10 + DigitVal(Head(s)))

\* strtoull(buf, NULL, 10) on a buffer of at most 8 characters: the value of
\* the leading run of digits, 0 when there is none
strtoull(buf) == ParseDigits(buf, 0)

RECURSIVE DecimalOf(_)
DecimalOf(n) ==
    IF n < 10
    THEN <<digits[n + 1]>>
    ELSE Append(DecimalOf(n \div 10), digits[(n % 10) + 1])

\* sprintf(index, "%lld", i): minimal decimal text of i
sprintf_lld(n) == DecimalOf(n)

(***************************************************************************)
(* hdderive: the scan for a range marker (lines 417-464).                  *)
(* The scan state is the loop's locals.  from and to are uninitialised     *)
(* until the scan assigns them; they are read only when end > -1, which    *)
(* implies both were assigned, so the placeholder -1 is never read.        *)
(***************************************************************************)
ScanInit ==
    [i |-> 0, posanum |-> -1, posbnum |-> -1, end |-> -1,
     from |-> -1, to |-> -1, brk |-> FALSE]

\* line 461-463, then the loop's i++
OpenCheck(kp, st) ==
    LET c == kp[st.i + 1]
        st1 == IF c = "[" \/ c = "("
               THEN [st EXCEPT !.posanum = st.i + 1]
               ELSE st
    IN [st1 EXCEPT !.i = st.i + 1]

\* lines 429-443 with a first numeral of no digits refused
ScanFromRunNonEmpty(kp, st) ==
    LET i == st.i
        c == kp[i + 1]
    IN IF c = "-"
       THEN IF i - st.posanum >= NumBuf \/ i = st.posanum
            THEN [st EXCEPT !.brk = TRUE]
            ELSE OpenCheck(kp, [st EXCEPT
                     !.posbnum = i + 1,
                     !.from = strtoull(SubSeq(kp, st.posanum + 1, i))])
       ELSE IF ~IsDigit(c)
            THEN [st EXCEPT !.posanum = -1, !.brk = TRUE]
            ELSE OpenCheck(kp, st)

\* lines 429-443: inside the first numeral
ScanFromRun(kp, st) ==
    LET i == st.i
        c == kp[i + 1]
    IN IF c = "-"
       THEN IF i - st.posanum >= NumBuf
            THEN [st EXCEPT !.brk = TRUE]
            ELSE OpenCheck(kp, [st EXCEPT
                     !.posbnum = i + 1,
                     !.from = strtoull(SubSeq(kp, st.posanum + 1, i))])
       ELSE IF ~IsDigit(c)
            THEN [st EXCEPT !.posanum = -1, !.brk = TRUE]
            ELSE OpenCheck(kp, st)

\* lines 444-460 without the length check of line 446
ScanToRunUnchecked(kp, st) ==
    LET i == st.i
        c == kp[i + 1]
    IN IF c = "]" \/ c = ")"
       THEN [st EXCEPT
                !.to = strtoull(SubSeq(kp, st.posbnum + 1, i)),
                !.end = i + 1,
                !.brk = TRUE]
       ELSE IF ~IsDigit(c)
            THEN [st EXCEPT !.posbnum = -1, !.posanum = -1, !.brk = TRUE]
            ELSE OpenCheck(kp, st)

\* lines 444-460: inside the second numeral
ScanToRun(kp, st) ==
    LET i == st.i
        c == kp[i + 1]
    IN IF c = "]" \/ c = ")"
       THEN IF i - st.posbnum >= NumBuf
            THEN [st EXCEPT !.brk = TRUE]
            ELSE [st EXCEPT
                     !.to = strtoull(SubSeq(kp, st.posbnum + 1, i)),
                     !.end = i + 1,
                     !.brk = TRUE]
       ELSE IF ~IsDigit(c)
            THEN [st EXCEPT !.posbnum = -1, !.posanum = -1, !.brk = TRUE]
            ELSE OpenCheck(kp, st)

\* one iteration of the for loop at line 425, for i < strlen(keypath)
ScanIter(kp, st) ==
    IF st.i > maxlen
    THEN [st EXCEPT !.brk = TRUE]
    ELSE IF st.posanum > -1 /\ st.posbnum = -1
         THEN ScanFromRun(kp, st)
         ELSE IF st.posanum > -1 /\ st.posbnum > -1
              THEN ScanToRun(kp, st)
              ELSE OpenCheck(kp, st)

\* the loop has ended: a break, or i reached strlen(keypath)
ScanOver(kp, st) == st.brk \/ st.i >= Len(kp)

RECURSIVE ScanAll(_, _)
ScanAll(kp, st) ==
    IF ScanOver(kp, st) THEN st ELSE ScanAll(kp, ScanIter(kp, st))

\* line 466 without its from <= to
ExpandAnyRange(st) == st.end > -1

\* line 466: if (end > -1 && from <= to)
ExpandRange(st) == st.end > -1 /\ st.from <= st.to

\* lines 468-473: the bytes the three memcpy calls write into keypathnew
KeypathnewBytes(kp, st, n) ==
    SubSeq(kp, 1, st.posanum - 1) \o sprintf_lld(n)
        \o SubSeq(kp, st.end + 1, Len(kp))

RECURSIVE SeqsUpTo(_, _)
SeqsUpTo(S, n) ==
    IF n = 0
    THEN {<<>>}
    ELSE LET shorter == SeqsUpTo(S, n - 1)
         IN shorter \cup {Append(s, c) : s \in shorter, c \in S}

\* keypathnew is an uninitialised array of strlen(keypath)+16 bytes and the
\* three memcpy calls copy no terminating NUL: hd_derive reads the written
\* bytes and then whatever bytes follow, in the array and behind it, up to
\* the first zero byte.  "?" is any non-zero byte; the empty tail is the
\* case where a zero byte follows at once.
IndeterminateTails == SeqsUpTo({"?"}, MaxGarbage)

(***************************************************************************)
(* strtol and the narrowing to int (line 135).  TLC's integers are 32 bits *)
(* wide, so a long is four 16-bit limbs, least significant first, in two's *)
(* complement.                                                             *)
(***************************************************************************)
LimbBase == 256 * 256

HalfBase == 128 * 256

\* m * 10 + d on four limbs, with the carry out of the top limb
MulAdd10(m, d) ==
    LET t1 == m[1] * 10 + d
        t2 == m[2] * 10 + (t1 \div LimbBase)
        t3 == m[3] * 10 + (t2 \div LimbBase)
        t4 == m[4] * 10 + (t3 \div LimbBase)
    IN [v |-> <<t1 % LimbBase, t2 % LimbBase, t3 % LimbBase, t4 % LimbBase>>,
        carry |-> t4 \div LimbBase]

RECURSIVE Accumulate(_, _, _)
Accumulate(s, m, ovf) ==
    IF s = <<>> \/ ~IsDigit(Head(s))
    THEN [m |-> m, ovf |-> ovf]
    ELSE LET r == MulAdd10(m, DigitVal(Head(s)))
         IN Accumulate(Tail(s), r.v, ovf \/ r.carry > 0)

\* 0 - m on four limbs (two's complement negation)
Negate64(m) ==
    LET b1 == IF m[1] = 0 THEN 0 ELSE 1
        b2 == IF m[2] + b1 = 0 THEN 0 ELSE 1
        b3 == IF m[3] + b2 = 0 THEN 0 ELSE 1
    IN <<(LimbBase - m[1]) % LimbBase,
         (LimbBase - m[2] - b1) % LimbBase,
         (LimbBase - m[3] - b2) % LimbBase,
         (LimbBase - m[4] - b3) % LimbBase>>

LONG_MAX == <<LimbBase - 1, LimbBase - 1, LimbBase - 1, HalfBase - 1>>

LONG_MIN == <<0, 0, 0, HalfBase>>

\* the characters isspace() holds of in the C locale; the vertical tab,
\* which a string of this language cannot hold, is written "\\v"
isspace == {" ", "\t", "\n", "\\v", "\f", "\r"}

RECURSIVE SkipSpace(_)
SkipSpace(s) == IF s # <<>> /\ Head(s) \in isspace THEN SkipSpace(Tail(s)) ELSE s

\* strtol(optarg, NULL, 10) with a 64-bit long: leading blanks, an optional
\* sign, the leading run of digits (0 when there is none), clamped to
\* LONG_MIN..LONG_MAX
strtol(optarg) ==
    LET s == SkipSpace(optarg)
        neg == s # <<>> /\ Head(s) = "-"
        body == IF s # <<>> /\ (Head(s) = "-" \/ Head(s) = "+") THEN Tail(s) ELSE s
        a == Accumulate(body, <<0, 0, 0, 0>>, FALSE)
        big == a.ovf \/ a.m[4] >= HalfBase
    IN IF neg
       THEN IF big THEN LONG_MIN ELSE Negate64(a.m)
       ELSE IF big THEN LONG_MAX ELSE a.m

\* (int) of a long: the low 32 bits, read as a signed 32-bit integer
CastInt(l) ==
    IF l[2] >= HalfBase
    THEN (l[2] - LimbBase) * LimbBase + l[1]
    ELSE l[2] * LimbBase + l[1]

\* strtoll(optarg, NULL, 10): long long has the 64 bits of long
strtoll(optarg) == strtol(optarg)

Zero64 == <<0, 0, 0, 0>>

\* the conversion of an int to uint64_t: the value modulo 2^64, so a
\* negative int is sign-extended
ToUint64(n) ==
    LET hi == IF n < 0 THEN LimbBase - 1 ELSE 0
    IN <<n % LimbBase, (n \div LimbBase) % LimbBase, hi, hi>>

\* line 509: (size_t)inputindex >= tx->vin->len.  The conversion to size_t
\* adds 2^64 to a negative int, which exceeds every vector length.
IndexOutOfRange(index, len) == index < 0 \/ index >= len

(***************************************************************************)
(* The command line.  An option is a record of one shape: o is the letter  *)
(* getopt_long_only returns, name a command name, text the characters of   *)
(* an argument the program reads, len the strlen of an argument it only    *)
(* measures, vin the number of inputs the transaction hex deserialises to  *)
(* (-1: it does not deserialise).                                          *)
(***************************************************************************)
Opt(o, name, text, len, vin) ==
    [o |-> o, name |-> name, text |-> text, len |-> len, vin |-> vin,
     arg |-> TRUE]

\* lines 56-60: the long names txhex, scripthex, inputindex, sighashtype and
\* amount are declared no_argument, so getopt_long_only returns their
\* letter with optarg NULL
OptNoArg(o) ==
    [o |-> o, name |-> "", text |-> <<>>, len |-> 0, vin |-> 0, arg |-> FALSE]

OptC(name) == Opt("c", name, <<>>, 0, 0)

OptP(len) == Opt("p", "", <<>>, len, 0)

OptM(kp) == Opt("m", "", kp, Len(kp), 0)

OptK == Opt("k", "", <<>>, 66, 0)

OptX(len, vin) == Opt("x", "", <<>>, len, vin)

OptS(len) == Opt("s", "", <<>>, len, 0)

OptI(text) == Opt("i", "", text, Len(text), 0)

OptV == Opt("v", "", <<>>, 0, 0)

OptH(text) == Opt("h", "", text, Len(text), 0)

OptA(text) == Opt("a", "", text, Len(text), 0)

OptT == Opt("t", "", <<>>, 0, 0)

OptR == Opt("r", "", <<>>, 0, 0)

OptBad == Opt("?", "", <<>>, 0, 0)

Alphabet == {"/", "[", "]", "(", "-", "1", "2"}

Numerals ==
    {<<>>, <<"0">>, <<"2">>, <<"3">>, <<"9">>, <<"1", "0">>, <<"0", "0", "7">>,
     <<"0", "0", "0", "0", "0", "0", "0", "8">>,
     <<"9", "9", "9", "9", "9", "9", "9", "8">>,
     <<"9", "9", "9", "9", "9", "9", "9", "9">>,
     <<"0", "0", "0", "0", "0", "0", "0", "0", "9">>,
     <<"2", "x">>}

Prefixes == {<<"m", "/">>, <<"m", "/", "0", "'", "/">>}

Suffixes == {<<>>, <<"/", "5">>}

MarkerPaths ==
    {p \o <<o>> \o a \o <<"-">> \o b \o <<c>> \o s :
        p \in Prefixes, o \in {"[", "("}, a \in Numerals, b \in Numerals,
        c \in {"]", ")"}, s \in Suffixes}

\* the key paths given with -m: every short string over Alphabet and the
\* marker paths, without those whose range the model would not finish
KeyPaths ==
    {kp \in SeqsUpTo(Alphabet, MaxLen) \cup MarkerPaths :
        LET st == ScanAll(kp, ScanInit)
        IN st.end > -1 => st.to - st.from < MaxRange}

\* the arguments given with -i
IndexArgs ==
    {<<"0">>, <<"1">>, <<"2">>, <<"3">>, <<"-", "1">>, <<"-", "0">>, <<"+", "1">>,
     <<" ", "1">>, <<"0", "0", "1">>, <<"1", "x">>, <<"x">>, <<>>,
     <<"\t", "1">>, <<"\n", "1">>, <<" ", "\t", " ", "2">>, <<"\t", "-", "1">>,
     <<"\f", "\r", "\\v", "0">>,
     <<"2", "1", "4", "7", "4", "8", "3", "6", "4", "7">>,
     <<"2", "1", "4", "7", "4", "8", "3", "6", "4", "8">>,
     <<"4", "2", "9", "4", "9", "6", "7", "2", "9", "5">>,
     <<"4", "2", "9", "4", "9", "6", "7", "2", "9", "6">>,
     <<"4", "2", "9", "4", "9", "6", "7", "2", "9", "7">>,
     <<"-", "4", "2", "9", "4", "9", "6", "7", "2", "9", "5">>,
     <<"9", "2", "2", "3", "3", "7", "2", "0", "3", "6", "8", "5", "4", "7", "7",
       "5", "8", "0", "7">>,
     <<"9", "2", "2", "3", "3", "7", "2", "0", "3", "6", "8", "5", "4", "7", "7",
       "5", "8", "0", "8">>,
     <<"-", "9", "2", "2", "3", "3", "7", "2", "0", "3", "6", "8", "5", "4", "7",
       "7", "5", "8", "0", "8">>,
     <<"1", "8", "4", "4", "6", "7", "4", "4", "0", "7", "3", "7", "0", "9", "5",
       "5", "1", "6", "1", "7">>}

\* the arguments given with -a
AmountArgs ==
    {<<"0">>, <<"1">>, <<"1", "0", "0", "0">>, <<"0", "0", "7">>, <<>>,
     <<"2", "1", "x">>, <<"-", "1">>, <<"\t", "1">>, <<" ", "\n", "7">>,
     <<"2", "1", "4", "7", "4", "8", "3", "6", "4", "7">>,
     <<"2", "1", "4", "7", "4", "8", "3", "6", "4", "8">>,
     <<"4", "2", "9", "4", "9", "6", "7", "2", "9", "5">>,
     <<"4", "2", "9", "4", "9", "6", "7", "2", "9", "6">>,
     <<"4", "2", "9", "4", "9", "6", "7", "2", "9", "7">>,
     <<"2", "1", "0", "0", "0", "0", "0", "0", "0", "0", "0", "0", "0", "0", "0",
       "0">>,
     <<"9", "2", "2", "3", "3", "7", "2", "0", "3", "6", "8", "5", "4", "7", "7",
       "5", "8", "0", "7">>,
     <<"9", "2", "2", "3", "3", "7", "2", "0", "3", "6", "8", "5", "4", "7", "7",
       "5", "8", "0", "8">>,
     <<"1", "8", "4", "4", "6", "7", "4", "4", "0", "7", "3", "7", "0", "9", "5",
       "5", "1", "6", "1", "5">>}

\* the arguments given with -h
HashTypeArgs == {<<"1">>, <<"2">>, <<"3">>, <<"1", "2", "9">>, <<"x">>, <<"\t", "2">>}

\* strlen of the -p argument: below, at and above the 50 the code tests
KeyLens == {WifLen - 1, WifLen, WifLen + 1, 111}

\* -x arguments: within and over the size limit, deserialising or not
TxHexes ==
    {OptX(MaxTxHex + 1, 1), OptX(20, -1)}
        \cup {OptX(MaxTxHex, n) : n \in 0..MaxInputs}

Commands ==
    {"pubfrompriv", "addrfrompub", "p2pkhaddrfrompub", "genkey", "crack",
     "hdgenmaster", "hdprintkey", "hdderive", "sign", "comp2der",
     "bip32maintotest"}

Optional(S) == {<<>>} \cup {<<x>> : x \in S}

HdArgvs ==
    {<<OptC("hdderive")>> \o p \o m :
        p \in Optional({OptP(111)}), m \in Optional({OptM(kp) : kp \in KeyPaths})}

SignArgvs ==
    {<<OptC("sign")>> \o x \o s \o i \o p :
        x \in Optional(TxHexes), s \in Optional({OptS(50)}),
        i \in Optional({OptI(t) : t \in IndexArgs}),
        p \in Optional({OptP(n) : n \in KeyLens})}

\* sign requests that pass the preconditions, with -a and -h
SignAmountArgvs ==
    {<<OptC("sign"), OptX(MaxTxHex, 1), OptS(50)>> \o a \o h \o p :
        a \in Optional({OptA(t) : t \in AmountArgs}),
        h \in Optional({OptH(t) : t \in HashTypeArgs}),
        p \in Optional({OptP(WifLen), OptP(WifLen + 2)})}

\* commands on the test and regtest chains
ChainArgvs ==
    {t \o <<OptC(n)>> \o p :
        t \in {<<OptT>>, <<OptR>>, <<OptT, OptR>>},
        n \in {"genkey", "hdgenmaster", "hdprintkey", "bip32maintotest"},
        p \in Optional({OptP(111)})}

\* strlen of -s arguments, short and long
ScriptLens == {50, CompactHexLen, 5000}

\* sign requests without -p, the script hex short and long
NoKeyArgvs ==
    {<<OptC("sign"), OptX(MaxTxHex, 2), OptS(n)>> \o i \o h :
        n \in ScriptLens,
        i \in Optional({OptI(<<"1">>)}),
        h \in Optional({OptH(<<"1", "2", "9">>)})}

\* requests whose -x, -s, -i, -h or -a is given by its long name
LongNameArgvs ==
    {<<OptC(c)>> \o x \o s \o <<o>> \o p :
        c \in {"sign", "comp2der"},
        x \in Optional({OptX(MaxTxHex, 1)}),
        s \in Optional({OptS(50), OptS(CompactHexLen)}),
        o \in {OptNoArg(l) : l \in {"x", "s", "i", "h", "a"}},
        p \in Optional({OptP(WifLen)})}

OtherArgvs ==
    {p \o c \o k \o s :
        p \in Optional({OptP(n) : n \in KeyLens}),
        c \in Optional({OptC(n) : n \in (Commands \cup {"foo"}) \ {"hdderive", "sign"}}),
        k \in Optional({OptK}),
        s \in Optional({OptS(CompactHexLen), OptS(50)})}
        \cup {<<OptV>>, <<OptC("genkey"), OptV>>, <<OptBad>>,
              <<OptC("genkey"), OptBad>>, <<OptP(WifLen - 1), OptV>>}

Argvs ==
    HdArgvs \cup SignArgvs \cup SignAmountArgvs \cup ChainArgvs \cup LongNameArgvs
        \cup NoKeyArgvs
        \cup OtherArgvs

(***************************************************************************)
(* The state of main.                                                      *)
(***************************************************************************)
VARIABLES
    pc,          \* where main is
    argv,        \* the options of the command line, in order
    optind,      \* the option getopt_long_only returns next
    cmd, pkey, pubkey, keypath, txhex, scripthex,   \* char* option variables
    inputindex,  \* int inputindex
    sighashtype, \* int sighashtype
    amount,      \* uint64_t amount, four 16-bit limbs
    chain,       \* const btc_chainparams* chain
    ecc,         \* the btc_ecc_start / btc_ecc_stop calls made, in order
    out,         \* the lines printf was called with, in order
    lost,        \* how many of the last lines of out never reached stdout
    calls,       \* the library calls made, each with whether the context was live
    exitcode,    \* the status main returned or exit() was given; -1 before
    scan,        \* hdderive: i, posanum, posbnum, end, from, to
    idx,         \* hdderive: the range loop's i
    handed,      \* hdderive: the key paths passed to hd_derive, in order
    heap,        \* sign: tx, data_bin, script, signed_tx
    sensitive,   \* the buffers that hold secret material and are not zeroed
    rounds,      \* crack: rounds of the endless loop taken
    sigargs      \* sign: the arguments btc_tx_sighash and btc_tx_sign_input got

optVars ==
    <<argv, optind, cmd, pkey, pubkey, keypath, txhex, scripthex, inputindex,
      sighashtype, amount, chain>>

hdVars == <<scan, idx, handed>>

vars ==
    <<pc, argv, optind, cmd, pkey, pubkey, keypath, txhex, scripthex, inputindex,
      sighashtype, amount, chain, ecc, out, calls, exitcode, scan, idx, handed,
      heap, sensitive, rounds, sigargs, lost>>

\* a char* option variable: NULL, or what the option's argument holds
NullArg == [set |-> FALSE, name |-> "", text |-> <<>>, len |-> 0, vin |-> 0]

\* var = optarg, which is NULL for an option that came without argument
ArgOf(opt) ==
    [set |-> opt.arg, name |-> opt.name, text |-> opt.text, len |-> opt.len,
     vin |-> opt.vin]

Line(s) == [k |-> "out", s |-> s]

ErrLine(s) == [k |-> "err", s |-> s]

\* what reached the process's standard output
stdout == SubSeq(out, 1, Len(out) - lost)

EccLive == ecc = <<"start">>

Call(f) == [f |-> f, ctx |-> EccLive]

HeapObjects == {"tx", "data_bin", "script", "signed_tx"}

\* the two library calls of sign that take the amount
SignPrimitives == {"btc_tx_sighash", "btc_tx_sign_input"}

NoCall ==
    [called |-> FALSE, inputindex |-> 0, sighashtype |-> 0, amount |-> Zero64]

\* the call's inputindex, sighashtype and amount arguments
SignCall(index, hashtype, amt) ==
    [called |-> TRUE, inputindex |-> index, sighashtype |-> hashtype,
     amount |-> amt]

Alloc(h, r) == [h EXCEPT ![r] = "live"]

Free(h, r) == [h EXCEPT ![r] = IF h[r] = "live" THEN "freed" ELSE "badfree"]

\* lines 88-99
Init ==
    /\ pc = "getopt"
    /\ argv \in Argvs
    /\ optind = 1
    /\ cmd = NullArg
    /\ pkey = NullArg
    /\ pubkey = NullArg
    /\ keypath = NullArg
    /\ txhex = NullArg
    /\ scripthex = NullArg
    /\ inputindex = 0
    /\ sighashtype = 1
    /\ amount = Zero64
    /\ chain = "btc_chainparams_main"
    /\ ecc = <<>>
    /\ out = <<>>
    /\ calls = {}
    /\ exitcode = -1
    /\ scan = ScanInit
    /\ idx = 0
    /\ handed = <<>>
    /\ heap = [r \in HeapObjects |-> "none"]
    /\ sensitive = {}
    /\ rounds = 0
    /\ sigargs = [f \in SignPrimitives |-> NoCall]
    /\ lost = 0

\* lines 79-84: printf("Error: %s\n", er); btc_ecc_stop(); return 1;
\* every caller returns the result from main
showError(er) ==
    /\ out' = Append(out, ErrLine(er))
    /\ ecc' = Append(ecc, "stop")
    /\ exitcode' = 1
    /\ pc' = "exited"

\* print_usage(); exit(EXIT_FAILURE);
UsageExit ==
    /\ out' = Append(out, Line("usage"))
    /\ exitcode' = 1
    /\ pc' = "exited"
    /\ UNCHANGED ecc

\* The process is killed by a signal.  Lines printf took but stdio had not
\* yet written are lost: how many depends on stdout's buffering, which the
\* program does not set (line buffered on a terminal, and otherwise a
\* buffer of the size the file system reports), so any number of the last
\* lines printed may be missing from stdout.
Killed ==
    /\ pc' = "crashed"
    /\ lost' \in 0..Len(out)
    /\ UNCHANGED <<out, ecc, exitcode>>

\* falling out of the command chain to line 613
ToFinal == pc' = "final" /\ UNCHANGED <<ecc, exitcode>>

(***************************************************************************)
(* Option parsing, lines 102-153: one action per case of the switch.       *)
(***************************************************************************)
optarg == argv[optind]

NextOpt(o) ==
    /\ pc = "getopt"
    /\ optind <= Len(argv)
    /\ argv[optind].o = o
    /\ optind' = optind + 1
    /\ UNCHANGED argv

\* getopt_long_only returned -1
OptionsDone == pc = "getopt" /\ optind > Len(argv)

OptPrivkey ==
    /\ NextOpt("p")
    /\ pkey' = ArgOf(optarg)
    /\ sensitive' = sensitive \cup {"pkey"}
    /\ IF optarg.len < WifLen
       THEN showError("Private key must be WIF encoded")
       ELSE UNCHANGED <<pc, out, ecc, exitcode>>
    /\ UNCHANGED <<cmd, pubkey, keypath, txhex, scripthex, inputindex, sighashtype, amount, chain, calls,
                   hdVars, heap, rounds, sigargs, lost>>

OptCommand ==
    /\ NextOpt("c")
    /\ cmd' = ArgOf(optarg)
    /\ UNCHANGED <<pc, pkey, pubkey, keypath, txhex, scripthex, inputindex, sighashtype, amount, chain, ecc,
                   out, calls, exitcode, hdVars, heap, sensitive, rounds, sigargs, lost>>

OptKeypath ==
    /\ NextOpt("m")
    /\ keypath' = ArgOf(optarg)
    /\ UNCHANGED <<pc, cmd, pkey, pubkey, txhex, scripthex, inputindex, sighashtype, amount, chain, ecc,
                   out, calls, exitcode, hdVars, heap, sensitive, rounds, sigargs, lost>>

OptPubkey ==
    /\ NextOpt("k")
    /\ pubkey' = ArgOf(optarg)
    /\ UNCHANGED <<pc, cmd, pkey, keypath, txhex, scripthex, inputindex, sighashtype, amount, chain, ecc,
                   out, calls, exitcode, hdVars, heap, sensitive, rounds, sigargs, lost>>

OptVersion ==
    /\ NextOpt("v")
    /\ out' = Append(out, Line("Version"))
    /\ exitcode' = 0
    /\ pc' = "exited"
    /\ UNCHANGED <<cmd, pkey, pubkey, keypath, txhex, scripthex, inputindex, sighashtype, amount, chain,
                   ecc, calls, hdVars, heap, sensitive, rounds, sigargs, lost>>

OptTxhex ==
    /\ NextOpt("x")
    /\ txhex' = ArgOf(optarg)
    /\ UNCHANGED <<pc, cmd, pkey, pubkey, keypath, scripthex, inputindex, sighashtype, amount, chain, ecc,
                   out, calls, exitcode, hdVars, heap, sensitive, rounds, sigargs, lost>>

OptScripthex ==
    /\ NextOpt("s")
    /\ scripthex' = ArgOf(optarg)
    /\ UNCHANGED <<pc, cmd, pkey, pubkey, keypath, txhex, inputindex, sighashtype, amount, chain, ecc,
                   out, calls, exitcode, hdVars, heap, sensitive, rounds, sigargs, lost>>

OptInputindex ==
    /\ NextOpt("i")
    /\ IF optarg.arg
       THEN /\ inputindex' = CastInt(strtol(optarg.text))
            /\ UNCHANGED <<pc, ecc, out, exitcode, lost>>
       ELSE Killed /\ UNCHANGED inputindex
    /\ UNCHANGED <<cmd, pkey, pubkey, keypath, txhex, scripthex, sighashtype,
                   amount, chain, calls, hdVars, heap, sensitive, rounds, sigargs>>

\* line 138; strtol(NULL) when the option came as --sighashtype
OptSighashtype ==
    /\ NextOpt("h")
    /\ IF optarg.arg
       THEN /\ sighashtype' = CastInt(strtol(optarg.text))
            /\ UNCHANGED <<pc, ecc, out, exitcode, lost>>
       ELSE Killed /\ UNCHANGED sighashtype
    /\ UNCHANGED <<cmd, pkey, pubkey, keypath, txhex, scripthex, inputindex,
                   amount, chain, calls, hdVars, heap, sensitive, rounds, sigargs>>

\* line 141: amount = (int)strtoll(optarg, (char**)NULL, 10);
OptAmount ==
    /\ NextOpt("a")
    /\ IF optarg.arg
       THEN /\ amount' = ToUint64(CastInt(strtoll(optarg.text)))
            /\ UNCHANGED <<pc, ecc, out, exitcode, lost>>
       ELSE Killed /\ UNCHANGED amount
    /\ UNCHANGED <<cmd, pkey, pubkey, keypath, txhex, scripthex, inputindex,
                   sighashtype, chain, calls, hdVars, heap, sensitive, rounds,
                   sigargs>>

\* line 119
OptTestnet ==
    /\ NextOpt("t")
    /\ chain' = "btc_chainparams_test"
    /\ UNCHANGED <<pc, cmd, pkey, pubkey, keypath, txhex, scripthex, inputindex,
                   sighashtype, amount, ecc, out, calls, exitcode, hdVars, heap,
                   sensitive, rounds, sigargs, lost>>

\* line 122
OptRegtest ==
    /\ NextOpt("r")
    /\ chain' = "btc_chainparams_regtest"
    /\ UNCHANGED <<pc, cmd, pkey, pubkey, keypath, txhex, scripthex, inputindex,
                   sighashtype, amount, ecc, out, calls, exitcode, hdVars, heap,
                   sensitive, rounds, sigargs, lost>>

OptDefault ==
    /\ NextOpt("?")
    /\ UsageExit
    /\ UNCHANGED <<cmd, pkey, pubkey, keypath, txhex, scripthex, inputindex, sighashtype, amount, chain,
                   calls, hdVars, heap, sensitive, rounds, sigargs, lost>>

\* lines 149-153
NoCommand ==
    /\ OptionsDone /\ ~cmd.set
    /\ UsageExit
    /\ UNCHANGED <<optVars, calls, hdVars, heap, sensitive, rounds, sigargs, lost>>

\* line 156
EccStart ==
    /\ OptionsDone /\ cmd.set
    /\ ecc' = Append(ecc, "start")
    /\ pc' = "dispatch"
    /\ UNCHANGED <<optVars, out, calls, exitcode, hdVars, heap, sensitive, rounds, sigargs, lost>>

\* lines 613-615
Final ==
    /\ pc = "final"
    /\ ecc' = Append(ecc, "stop")
    /\ exitcode' = 0
    /\ pc' = "exited"
    /\ UNCHANGED <<optVars, out, calls, hdVars, heap, sensitive, rounds, sigargs, lost>>

(***************************************************************************)
(* The commands other than hdderive and sign.                              *)
(***************************************************************************)
Dispatch(name) == pc = "dispatch" /\ cmd.name = name

\* lines 160-187
PubFromPriv ==
    /\ Dispatch("pubfrompriv")
    /\ IF ~pkey.set
       THEN /\ showError("Missing extended key (use -p)")
            /\ UNCHANGED <<calls, sensitive>>
       ELSE \E ok \in BOOLEAN :
            /\ calls' = calls \cup
                  IF ok THEN {Call("pubkey_from_privatekey"), Call("addresses_from_pubkey")}
                  ELSE {Call("pubkey_from_privatekey")}
            /\ IF ~ok
               THEN showError("Operation failed") /\ UNCHANGED sensitive
               ELSE /\ sensitive' = sensitive \ {"pkey"}
                    /\ out' = out \o <<Line("pubkey"), Line("p2pkh address"),
                                       Line("p2sh-p2wpkh address")>>
                    /\ ToFinal
    /\ UNCHANGED <<optVars, hdVars, heap, rounds, sigargs, lost>>

\* lines 188-205
AddrFromPub ==
    /\ pc = "dispatch" /\ cmd.name \in {"addrfrompub", "p2pkhaddrfrompub"}
    /\ IF ~pubkey.set
       THEN showError("Missing public key (use -k)") /\ UNCHANGED calls
       ELSE \E ok \in BOOLEAN :
            /\ calls' = calls \cup {Call("addresses_from_pubkey")}
            /\ IF ~ok
               THEN showError("Operation failed, invalid pubkey")
               ELSE /\ out' = out \o <<Line("p2pkh address"),
                                       Line("p2sh-p2wpkh address"),
                                       Line("p2wpkh (bc1 / bech32) address")>>
                    /\ ToFinal
    /\ UNCHANGED <<optVars, hdVars, heap, sensitive, rounds, sigargs, lost>>

\* lines 206-218: both new buffers are zeroed after printing
GenKey ==
    /\ Dispatch("genkey")
    /\ calls' = calls \cup {Call("gen_privatekey")}
    /\ out' = out \o <<Line("privatekey WIF"), Line("privatekey HEX")>>
    /\ sensitive' = (sensitive \cup {"newprivkey_wif", "newprivkey_hex"})
                        \ {"newprivkey_wif", "newprivkey_hex"}
    /\ ToFinal
    /\ UNCHANGED <<optVars, hdVars, heap, rounds, sigargs, lost>>

\* lines 219-390: one round of while(true).  The comparison at line 371 is
\* of the address with the array of pointers, which no address equals, so
\* the loop is left only through showError; the round zeroes
\* newprivkey_wif and leaves newprivkey_hex.
CrackRound ==
    /\ Dispatch("crack")
    /\ rounds < MaxRounds
    /\ rounds' = rounds + 1
    /\ \E ok \in BOOLEAN :
        /\ calls' = calls \cup
              IF ok THEN {Call("gen_privatekey"), Call("pubkey_from_privatekey"),
                          Call("addresses_from_pubkey")}
              ELSE {Call("gen_privatekey"), Call("pubkey_from_privatekey")}
        /\ IF ~ok
           THEN /\ showError("Operation failed")
                /\ sensitive' = sensitive \cup {"newprivkey_wif", "newprivkey_hex"}
           ELSE /\ out' = Append(out, Line("p2pkh address"))
                /\ sensitive' = sensitive \cup {"newprivkey_hex"}
                /\ UNCHANGED <<pc, ecc, exitcode>>
    /\ UNCHANGED <<optVars, hdVars, heap, sigargs, lost>>

\* lines 395-402
HdGenMaster ==
    /\ Dispatch("hdgenmaster")
    /\ calls' = calls \cup {Call("hd_gen_master")}
    /\ out' = Append(out, Line("masterkey"))
    /\ sensitive' = (sensitive \cup {"masterkey"}) \ {"masterkey"}
    /\ ToFinal
    /\ UNCHANGED <<optVars, hdVars, heap, rounds, sigargs, lost>>

\* lines 403-407
HdPrintKey ==
    /\ Dispatch("hdprintkey")
    /\ IF ~pkey.set
       THEN showError("Missing extended key (use -p)") /\ UNCHANGED calls
       ELSE \E ok \in BOOLEAN :
            /\ calls' = calls \cup {Call("hd_print_node")}
            /\ IF ~ok
               THEN showError("Failed. Probably invalid extended key.\n")
               ELSE out' = Append(out, Line("hd_print_node")) /\ ToFinal
    /\ UNCHANGED <<optVars, hdVars, heap, sensitive, rounds, sigargs, lost>>

\* lines 581-598
Comp2Der ==
    /\ Dispatch("comp2der")
    /\ IF ~scripthex.set \/ scripthex.len # CompactHexLen
       THEN /\ showError("Missing signature or invalid length (use hex, 128 chars == 64 bytes)\n")
            /\ UNCHANGED calls
       ELSE /\ calls' = calls \cup {Call("btc_ecc_compact_to_der_normalized")}
            /\ out' = out \o <<Line("scripthex"), Line("DER")>>
            /\ ToFinal
    /\ UNCHANGED <<optVars, hdVars, heap, sensitive, rounds, sigargs, lost>>

\* lines 599-610.  A failed deserialisation returns false, that is status 0,
\* from main without btc_ecc_stop.  With no -p the library is handed NULL.
Bip32MainToTest ==
    /\ Dispatch("bip32maintotest")
    /\ calls' = calls \cup {Call("btc_hdnode_deserialize")}
    /\ \/ /\ pkey.set
          /\ out' = out \o <<Line("xpriv"), Line("xpub")>>
          /\ sensitive' = sensitive \cup {"node"}
          /\ ToFinal
          /\ UNCHANGED lost
       \/ /\ exitcode' = 0
          /\ pc' = "exited"
          /\ UNCHANGED <<ecc, out, sensitive, lost>>
       \/ /\ ~pkey.set
          /\ Killed
          /\ UNCHANGED sensitive
    /\ UNCHANGED <<optVars, hdVars, heap, rounds, sigargs>>

\* no branch of the chain at lines 160-610 matches
UnknownCommand ==
    /\ pc = "dispatch" /\ cmd.name \notin Commands
    /\ ToFinal
    /\ UNCHANGED <<optVars, out, calls, hdVars, heap, sensitive, rounds, sigargs, lost>>

(***************************************************************************)
(* hdderive, lines 408-487.                                                *)
(***************************************************************************)
\* lines 409-424
HdCheckArgs ==
    /\ Dispatch("hdderive")
    /\ IF ~pkey.set
       THEN showError("Missing extended key (use -p)") /\ UNCHANGED scan
       ELSE IF ~keypath.set
            THEN showError("Missing keypath (use -m)") /\ UNCHANGED scan
            ELSE /\ scan' = ScanInit
                 /\ pc' = "hd_scan"
                 /\ UNCHANGED <<ecc, out, exitcode>>
    /\ UNCHANGED <<optVars, calls, idx, handed, heap, sensitive, rounds, sigargs, lost>>

\* lines 425-464: one iteration of the scan loop
HdScanStep ==
    /\ pc = "hd_scan"
    /\ ~ScanOver(keypath.text, scan)
    /\ scan' = ScanIter(keypath.text, scan)
    /\ UNCHANGED <<pc, optVars, ecc, out, calls, exitcode, idx, handed, heap,
                   sensitive, rounds, sigargs, lost>>

\* line 466: the loop is over, choose the range or the literal branch
HdScanEnd ==
    /\ pc = "hd_scan"
    /\ ScanOver(keypath.text, scan)
    /\ IF ExpandRange(scan)
       THEN pc' = "hd_range" /\ idx' = scan.from
       ELSE pc' = "hd_literal" /\ UNCHANGED idx
    /\ UNCHANGED <<optVars, ecc, out, calls, exitcode, scan, handed, heap,
                   sensitive, rounds, sigargs, lost>>

\* hd_derive(chain, pkey, path, newextkey, sizeout) and the branch on its
\* result (lines 476-479 and 483-486); after a success main is at `next`
HdDerive(path, next) ==
    /\ handed' = Append(handed, path)
    /\ \E ok \in BOOLEAN :
        /\ calls' = calls \cup
              IF ok THEN {Call("hd_derive"), Call("hd_print_node")}
              ELSE {Call("hd_derive")}
        /\ IF ~ok
           THEN showError("Deriving child key failed\n") /\ UNCHANGED sensitive
           ELSE /\ sensitive' = sensitive \cup {"newextkey"}
                /\ out' = Append(out, Line("hd_print_node"))
                /\ pc' = next
                /\ UNCHANGED <<ecc, exitcode>>

\* lines 467-480: one iteration of the range loop
HdRangeStep ==
    /\ pc = "hd_range"
    /\ idx <= scan.to
    /\ \E tail \in IndeterminateTails :
        HdDerive(KeypathnewBytes(keypath.text, scan, idx) \o tail, "hd_range")
    /\ idx' = idx + 1
    /\ UNCHANGED <<optVars, scan, heap, rounds, sigargs, lost>>

\* line 467: i <= to is false
HdRangeEnd ==
    /\ pc = "hd_range"
    /\ idx > scan.to
    /\ ToFinal
    /\ UNCHANGED <<optVars, out, calls, hdVars, heap, sensitive, rounds, sigargs, lost>>

\* lines 482-487
HdLiteral ==
    /\ pc = "hd_literal"
    /\ HdDerive(keypath.text, "final")
    /\ UNCHANGED <<optVars, scan, idx, heap, rounds, sigargs, lost>>

(***************************************************************************)
(* sign, lines 488-580.                                                    *)
(***************************************************************************)
\* lines 489-495
SignCheckArgs ==
    /\ Dispatch("sign")
    /\ IF ~txhex.set \/ ~scripthex.set
       THEN showError("Missing tx-hex or script-hex (use -x, -s)\n")
       ELSE IF txhex.len > MaxTxHex
            THEN showError("tx too large (max 100kb)\n")
            ELSE pc' = "sign_deser" /\ UNCHANGED <<ecc, out, exitcode>>
    /\ UNCHANGED <<optVars, calls, hdVars, heap, sensitive, rounds, sigargs, lost>>

\* lines 497-507
SignDeserialize ==
    /\ pc = "sign_deser"
    /\ calls' = calls \cup {Call("btc_tx_deserialize")}
    /\ LET h == Alloc(Alloc(heap, "tx"), "data_bin")
       IN IF txhex.vin < 0
          THEN /\ heap' = Free(Free(h, "data_bin"), "tx")
               /\ showError("Invalid tx hex")
          ELSE /\ heap' = Free(h, "data_bin")
               /\ pc' = "sign_index"
               /\ UNCHANGED <<ecc, out, exitcode>>
    /\ UNCHANGED <<optVars, hdVars, sensitive, rounds, sigargs, lost>>

\* lines 509-512; tx->vin->len is the number of inputs deserialised
SignIndexCheck ==
    /\ pc = "sign_index"
    /\ IF IndexOutOfRange(inputindex, txhex.vin)
       THEN /\ heap' = Free(heap, "tx")
            /\ showError("Inputindex out of range")
       ELSE /\ pc' = "sign_hash"
            /\ UNCHANGED <<heap, ecc, out, exitcode>>
    /\ UNCHANGED <<optVars, calls, hdVars, sensitive, rounds, sigargs, lost>>

\* lines 514-526; line 522 is
\* btc_tx_sighash(tx, script, inputindex, sighashtype, 0, SIGVERSION_BASE, sighash)
SignHash ==
    /\ pc = "sign_hash"
    /\ heap' = Alloc(heap, "script")
    /\ calls' = calls \cup {Call("btc_tx_sighash")}
    /\ sigargs' = [sigargs EXCEPT
          !["btc_tx_sighash"] = SignCall(inputindex, sighashtype, Zero64)]
    /\ pc' = "sign_diag"
    /\ UNCHANGED <<optVars, ecc, out, exitcode, hdVars, sensitive, rounds, lost>>

\* the five printf calls with the hash line first
DiagnosticsHashFirst ==
    <<Line("hash"), Line("script"), Line("script-type"), Line("inputindex"),
      Line("sighashtype")>>

\* lines 528-532: the five printf calls
Diagnostics ==
    <<Line("script"), Line("script-type"), Line("inputindex"),
      Line("sighashtype"), Line("hash")>>

\* lines 527-532
SignDiagnostics ==
    /\ pc = "sign_diag"
    /\ calls' = calls \cup {Call("btc_script_classify")}
    /\ out' = out \o Diagnostics
    /\ pc' = "sign_key"
    /\ UNCHANGED <<optVars, ecc, exitcode, hdVars, heap, sensitive, rounds, sigargs, lost>>

DecodeCalls == {Call("btc_privkey_init"), Call("btc_privkey_decode_wif")}

\* line 547
NoKeyNotice == Line("No private key provided, signing will not happen")

\* lines 535-540: the key decodes
SignKeyValid ==
    /\ pc = "sign_key"
    /\ pkey.set
    /\ calls' = calls \cup DecodeCalls
    /\ sensitive' = sensitive \cup {"key"}
    /\ pc' = "sign_input"
    /\ UNCHANGED <<optVars, ecc, out, exitcode, hdVars, heap, rounds, sigargs, lost>>

\* lines 541-546: it does not, and strlen(pkey) > 50
SignKeyInvalid ==
    /\ pc = "sign_key"
    /\ pkey.set /\ pkey.len > WifLen
    /\ calls' = calls \cup DecodeCalls
    /\ heap' = Free(Free(heap, "tx"), "script")
    /\ showError("Invalid wif privkey\n")
    /\ UNCHANGED <<optVars, hdVars, sensitive, rounds, sigargs, lost>>

\* lines 541-548: it does not, and strlen(pkey) <= 50
SignNoKey ==
    /\ pc = "sign_key"
    /\ pkey.set /\ pkey.len <= WifLen
    /\ calls' = calls \cup DecodeCalls
    /\ out' = Append(out, NoKeyNotice)
    /\ pc' = "sign_release"
    /\ UNCHANGED <<optVars, ecc, exitcode, hdVars, heap, sensitive, rounds, sigargs, lost>>

\* lines 538-542 with pkey == NULL (no -p): btc_privkey_decode_wif is
\* handed NULL and line 542 is strlen(NULL); the process is killed
SignKeyNull ==
    /\ pc = "sign_key"
    /\ ~pkey.set
    /\ calls' = calls \cup DecodeCalls
    /\ Killed
    /\ UNCHANGED <<optVars, hdVars, heap, sensitive, rounds, sigargs>>

\* lines 549-578 with a result other than BTC_SIGN_OK returned through
\* showError
SignInputAbort ==
    /\ pc = "sign_input"
    /\ calls' = calls \cup {Call("btc_tx_sign_input"), Call("btc_tx_serialize")}
    /\ sensitive' = sensitive \cup {"sigcompact", "sigder_plus_hashtype"}
    /\ sigargs' = [sigargs EXCEPT
          !["btc_tx_sign_input"] = SignCall(inputindex, sighashtype, amount)]
    /\ \E res \in {"BTC_SIGN_OK", "BTC_SIGN_ERROR"} :
        IF res # "BTC_SIGN_OK"
        THEN /\ heap' = Free(Free(heap, "script"), "tx")
             /\ out' = Append(out, Line("!!!Sign error"))
             /\ ecc' = Append(ecc, "stop")
             /\ exitcode' = 1
             /\ pc' = "exited"
        ELSE /\ heap' = Free(Alloc(Free(heap, "script"), "signed_tx"), "signed_tx")
             /\ out' = out
                    \o <<Line("Signature created"), Line("signature compact"),
                         Line("signature DER (+hashtype)"), Line("signed TX")>>
             /\ pc' = "sign_release"
             /\ UNCHANGED <<ecc, exitcode>>
    /\ UNCHANGED <<optVars, hdVars, rounds, lost>>

\* lines 549-578: btc_tx_sign_input and the printing of its results
SignInput ==
    /\ pc = "sign_input"
    /\ calls' = calls \cup {Call("btc_tx_sign_input"), Call("btc_tx_serialize")}
    /\ sensitive' = sensitive \cup {"sigcompact", "sigder_plus_hashtype"}
    /\ heap' = Free(Alloc(Free(heap, "script"), "signed_tx"), "signed_tx")
    /\ \E res \in {"BTC_SIGN_OK", "BTC_SIGN_ERROR"} :
        out' = out
            \o (IF res # "BTC_SIGN_OK" THEN <<Line("!!!Sign error")>> ELSE <<>>)
            \o <<Line("Signature created"), Line("signature compact"),
                 Line("signature DER (+hashtype)"), Line("signed TX")>>
    /\ sigargs' = [sigargs EXCEPT
          !["btc_tx_sign_input"] = SignCall(inputindex, sighashtype, amount)]
    /\ pc' = "sign_release"
    /\ UNCHANGED <<optVars, ecc, exitcode, hdVars, rounds, lost>>

\* line 579
SignRelease ==
    /\ pc = "sign_release"
    /\ heap' = Free(heap, "tx")
    /\ ToFinal
    /\ UNCHANGED <<optVars, out, calls, hdVars, sensitive, rounds, sigargs, lost>>

Next ==
    \/ OptPrivkey \/ OptCommand \/ OptKeypath \/ OptPubkey \/ OptVersion
    \/ OptTxhex \/ OptScripthex \/ OptInputindex \/ OptSighashtype \/ OptAmount
    \/ OptTestnet \/ OptRegtest \/ OptDefault
    \/ NoCommand \/ EccStart \/ Final
    \/ PubFromPriv \/ AddrFromPub \/ GenKey \/ CrackRound \/ HdGenMaster
    \/ HdPrintKey \/ Comp2Der \/ Bip32MainToTest \/ UnknownCommand
    \/ HdCheckArgs \/ HdScanStep \/ HdScanEnd \/ HdRangeStep \/ HdRangeEnd
    \/ HdLiteral
    \/ SignCheckArgs \/ SignDeserialize \/ SignIndexCheck \/ SignHash
    \/ SignDiagnostics \/ SignKeyValid \/ SignKeyInvalid \/ SignNoKey
    \/ SignKeyNull \/ SignInput \/ SignRelease

Spec == Init /\ [][Next]_vars

\* The runs of sign that pass its preconditions: main is one sequential
\* thread, so while a statement is left to execute, it is executed.
SignInit == Init /\ argv \in SignAmountArgvs

SignNext ==
    \/ OptPrivkey \/ OptCommand \/ OptTxhex \/ OptScripthex \/ OptSighashtype
    \/ OptAmount \/ EccStart \/ Final
    \/ SignCheckArgs \/ SignDeserialize \/ SignIndexCheck \/ SignHash
    \/ SignDiagnostics \/ SignKeyValid \/ SignKeyInvalid \/ SignNoKey
    \/ SignKeyNull \/ SignInput \/ SignRelease

\* once the signing primitive is reached, the statements after it run
SignFairSpec ==
    /\ SignInit /\ [][SignNext]_vars
    /\ WF_vars(SignInput) /\ WF_vars(SignRelease) /\ WF_vars(Final)

(***************************************************************************)
(* What the claims speak of, stated on the input text and not through the  *)
(* scan: the range marker of a key path.                                   *)
(***************************************************************************)
DigitChars == {"0", "1", "2", "3", "4", "5", "6", "7", "8", "9"}

AllDigits(s) == \A k \in 1..Len(s) : s[k] \in DigitChars

IsOpen(c) == c \in {"[", "("}

RECURSIVE NumVal(_)
NumVal(s) ==
    IF s = <<>>
    THEN 0
    ELSE NumVal(SubSeq(s, 1, Len(s) - 1)) * 10
            + (CHOOSE v \in 0..9 : digits[v + 1] = s[Len(s)])

\* the first position after `after` of s that holds a character of C; 0
\* when there is none
FirstOf(s, C, after) ==
    LET K == {k \in (after + 1)..Len(s) : s[k] \in C}
    IN IF K = {} THEN 0 ELSE CHOOSE k \in K : \A j \in K : k <= j

\* the marker of s: it opens at the first opening bracket o of s, has its
\* '-' at d, the first '-' after o, and closes at c, the first closing
\* bracket after d
MarkerOf(s) ==
    LET o == FirstOf(s, {"[", "("}, 0)
        d == IF o = 0 THEN 0 ELSE FirstOf(s, {"-"}, o)
        c == IF d = 0 THEN 0 ELSE FirstOf(s, {"]", ")"}, d)
    IN <<o, d, c>>

\* s has a marker and what lies between its bracket, '-' and bracket are two
\* runs of at most 8 digits each
ValidMarker(s) ==
    LET m == MarkerOf(s)
    IN /\ m[1] > 0 /\ m[2] > 0 /\ m[3] > 0
       /\ AllDigits(SubSeq(s, m[1] + 1, m[2] - 1)) /\ m[2] - m[1] - 1 <= 8
       /\ AllDigits(SubSeq(s, m[2] + 1, m[3] - 1)) /\ m[3] - m[2] - 1 <= 8

MarkerFrom(s) == LET m == MarkerOf(s) IN NumVal(SubSeq(s, m[1] + 1, m[2] - 1))

MarkerTo(s) == LET m == MarkerOf(s) IN NumVal(SubSeq(s, m[2] + 1, m[3] - 1))

MarkerPrefix(s) == SubSeq(s, 1, MarkerOf(s)[1] - 1)

MarkerSuffix(s) == SubSeq(s, MarkerOf(s)[3] + 1, Len(s))

\* both numerals of the marker have at least one digit
NumeralsPresent(s) ==
    LET m == MarkerOf(s) IN m[2] - m[1] > 1 /\ m[3] - m[2] > 1

HasOpen(s) == \E k \in 1..Len(s) : IsOpen(s[k])

\* some run of digits of s is longer than 8
LongNumeral(s) ==
    \E k \in 1..Len(s) : k + 8 <= Len(s) /\ AllDigits(SubSeq(s, k, k + 8))

\* d is the decimal text of n with no leading zero and no padding
MinimalDecimal(d, n) ==
    /\ d # <<>>
    /\ AllDigits(d)
    /\ Len(d) > 1 => d[1] # "0"
    /\ NumVal(d) = n

\* hdderive got past its argument checks with this key path
HdRunning ==
    cmd.name = "hdderive" /\ pkey.set /\ keypath.set /\ ecc # <<>> /\ ecc[1] = "start"

ErrorLines == {k \in 1..Len(out) : out[k].k = "err"}

DeriveFailed == ErrLine("Deriving child key failed\n")

\* C1: a key path with a valid range marker (two numerals of 1 to 8 digits)
\* and from <= to is expanded, when every derivation succeeds, into exactly
\* to - from + 1 handed paths, in ascending order, the k-th being
\* prefix + decimal(from + k - 1) + suffix with a minimal decimal
C1_RangeExpansion ==
    LET kp == keypath.text
    IN (/\ HdRunning
        /\ pc = "final"
        /\ ValidMarker(kp) /\ NumeralsPresent(kp)
        /\ MarkerFrom(kp) <= MarkerTo(kp))
       => /\ Len(handed) = MarkerTo(kp) - MarkerFrom(kp) + 1
          /\ \A k \in 1..Len(handed) :
                \E d \in {SubSeq(handed[k], Len(MarkerPrefix(kp)) + 1, e) :
                            e \in Len(MarkerPrefix(kp))..Len(handed[k])} :
                    /\ MinimalDecimal(d, MarkerFrom(kp) + k - 1)
                    /\ handed[k] = MarkerPrefix(kp) \o d \o MarkerSuffix(kp)

\* the literal fallback: the scan never enters the range loop, hands the
\* unmodified key path to hd_derive exactly once, and the only error there
\* can be is the derivation's own
LiteralFallback ==
    /\ pc # "hd_range"
    /\ handed \in {<<>>, <<keypath.text>>}
    /\ pc \in {"final", "exited"} => handed = <<keypath.text>>
    /\ \A k \in ErrorLines : out[k] = DeriveFailed /\ handed = <<keypath.text>>

\* C2: a key path with no opening bracket, or whose marker is malformed (a
\* non-digit in a numeral run, no '-', no closing bracket, a numeral of more
\* than 8 digits), is derived exactly once as it stands; nothing is expanded
\* and the scan raises no error
C2_MalformedIsLiteral ==
    (HdRunning /\ ~ValidMarker(keypath.text)) => LiteralFallback

\* a malformed marker with a numeral of more than 8 digits went to hd_derive
C2_Witness ==
    /\ HdRunning /\ pc = "final"
    /\ HasOpen(keypath.text) /\ LongNumeral(keypath.text)
    /\ ~ValidMarker(keypath.text)
    /\ handed = <<keypath.text>>

\* C3 as amended: with a valid marker and from > to the unmodified key path
\* is derived exactly once, nothing is expanded, and the scan reports no
\* error; the derivation of the literal path may itself fail and report it
C3_ReversedIsLiteral ==
    (/\ HdRunning
     /\ ValidMarker(keypath.text)
     /\ MarkerFrom(keypath.text) > MarkerTo(keypath.text))
    => LiteralFallback

\* C3 as claimed: ... and no error is reported
C3_ReversedNoError ==
    (/\ HdRunning
     /\ ValidMarker(keypath.text)
     /\ MarkerFrom(keypath.text) > MarkerTo(keypath.text))
    => (LiteralFallback /\ ErrorLines = {})

\* a marker with from > to went to hd_derive unexpanded
C3_Witness ==
    /\ HdRunning /\ pc = "final"
    /\ ValidMarker(keypath.text) /\ NumeralsPresent(keypath.text)
    /\ MarkerFrom(keypath.text) > MarkerTo(keypath.text)
    /\ handed = <<keypath.text>>

(***************************************************************************)
(* The sign command's claims.                                              *)
(***************************************************************************)
\* the text given with -i, once getopt has returned it
SuppliedIndex ==
    {argv[k].text : k \in {j \in 1..Len(argv) : j < optind /\ argv[j].o = "i"}}

\* an optional sign and at least one digit, nothing else
IsIntegerText(t) ==
    /\ t # <<>>
    /\ LET body == IF t[1] \in {"-", "+"} THEN Tail(t) ELSE t
       IN body # <<>> /\ AllDigits(body)

RECURSIVE StripZeros(_)
StripZeros(d) == IF d # <<>> /\ d[1] = "0" THEN StripZeros(Tail(d)) ELSE d

\* the digits of the integer's magnitude, without leading zeros
Magnitude(t) == StripZeros(IF t[1] \in {"-", "+"} THEN Tail(t) ELSE t)

SuppliedNegative(t) == t[1] = "-" /\ Magnitude(t) # <<>>

\* the integer written t is >= n, for 0 <= n < 10^9
SuppliedAtLeast(t, n) ==
    /\ ~SuppliedNegative(t)
    /\ Len(Magnitude(t)) > 9 \/ NumVal(Magnitude(t)) >= n

SuppliedInRange(t, n) == ~SuppliedNegative(t) /\ ~SuppliedAtLeast(t, n)

\* sign deserialised its transaction
SignParsed ==
    /\ cmd.name = "sign" /\ ecc # <<>> /\ ecc[1] = "start"
    /\ \E c \in calls : c.f = "btc_tx_deserialize"
    /\ txhex.vin >= 0

Printed(line) == \E k \in 1..Len(out) : out[k] = line

Called(f) == \E c \in calls : c.f = f

IndexRejected == Printed(ErrLine("Inputindex out of range"))

IndexAccepted == pc = "sign_hash" \/ Called("btc_tx_sighash")

HashOrSignaturePrinted ==
    \/ Printed(Line("hash"))
    \/ Printed(Line("signature compact"))
    \/ Printed(Line("signature DER (+hashtype)"))
    \/ Printed(Line("signed TX"))

\* C4: with N inputs, a supplied index in [0, N) is not rejected, a supplied
\* index that is >= N or negative is never accepted, and a rejection comes
\* before the hash is computed and before any hash or signature line
C4_IndexValidated ==
    \A t \in SuppliedIndex :
        (SignParsed /\ IsIntegerText(t)) =>
            /\ SuppliedInRange(t, txhex.vin) => ~IndexRejected
            /\ ~SuppliedInRange(t, txhex.vin) => ~IndexAccepted
            /\ IndexRejected => (~Called("btc_tx_sighash") /\ ~HashOrSignaturePrinted)

KeyEvaluated == Called("btc_privkey_decode_wif")

\* the key evaluation found no usable key: none was given, or the one given
\* did not decode and is not longer than 50 characters
NoUsableKey ==
    /\ cmd.name = "sign"
    /\ KeyEvaluated
    /\ "key" \notin sensitive
    /\ ~pkey.set \/ pkey.len <= WifLen

\* C5: a well-formed sign request with no usable key (no -p included) prints
\* the diagnostics and the notice, no signature field, and ends with status 0
C5_HashOnly ==
    NoUsableKey =>
        /\ pc \in {"sign_release", "final", "exited"}
        /\ out = <<Line("script"), Line("script-type"), Line("inputindex"),
                   Line("sighashtype"), Line("hash"), NoKeyNotice>>
        /\ pc = "exited" => exitcode = 0

\* main got to the command chain
Dispatched == ecc # <<>> /\ ecc[1] = "start"

\* exactly one Error line was printed, as the last line, and the status is
\* not 0
FailedWithError ==
    /\ exitcode # 0
    /\ Cardinality(ErrorLines) = 1
    /\ ErrorLines = {Len(out)}

\* C6: status 0 on normal completion, HashOnly included; a non-zero status
\* after one Error line on each precondition violation of sign, on the
\* invalid private key, and on a command name that is not recognised
C6_ExitStatus ==
    (pc = "exited" /\ Dispatched) =>
        /\ (cmd.name = "sign" /\ Printed(NoKeyNotice)) => exitcode = 0
        /\ (ErrorLines = {} /\ cmd.name \in Commands) => exitcode = 0
        /\ (cmd.name = "sign" /\ (~txhex.set \/ ~scripthex.set)) => FailedWithError
        /\ (cmd.name = "sign" /\ txhex.set /\ scripthex.set /\ txhex.len > MaxTxHex)
              => FailedWithError
        /\ (cmd.name = "sign" /\ txhex.set /\ scripthex.set /\ txhex.len <= MaxTxHex
              /\ txhex.vin < 0) => FailedWithError
        /\ (SignParsed /\ scripthex.set /\ (inputindex < 0 \/ inputindex >= txhex.vin))
              => FailedWithError
        /\ (cmd.name = "sign" /\ KeyEvaluated /\ pkey.set /\ pkey.len > WifLen
              /\ "key" \notin sensitive) => FailedWithError
        /\ cmd.name \notin Commands => FailedWithError

\* C7: btc_ecc_start is called at most once and before every library call,
\* btc_ecc_stop never without it and exactly once on every exit after it
C7_EccContext ==
    /\ ecc \in {<<>>, <<"start">>, <<"start", "stop">>}
    /\ \A c \in calls : c.ctx
    /\ pc = "exited" => ecc \in {<<>>, <<"start", "stop">>}

\* C8: when the sign command has returned, every heap object it allocated
\* has been released exactly once
C8_SignReleases ==
    (pc = "exited" /\ Dispatched /\ cmd.name = "sign" /\ pkey.set) =>
        \A r \in HeapObjects : heap[r] \in {"none", "freed"}

\* C9: when pubfrompriv, hdderive or sign has returned, by an error or not,
\* no buffer still holds secret material
C9_SecretsZeroed ==
    (pc = "exited" /\ Dispatched /\ cmd.name \in {"pubfrompriv", "hdderive", "sign"})
        => sensitive = {}

\* C10: in sign, once the preconditions pass, printf is called for the five
\* diagnostic lines script, script-type, inputindex, sighashtype, hash, in
\* this order, before the key is evaluated; they stay the first five lines
\* printed whatever follows (no key, invalid key, signing failure or
\* success), and on every run that is not killed all of them are on stdout
C10_DiagnosticsFirst ==
    (cmd.name = "sign"
        /\ (KeyEvaluated \/ pc \in {"sign_key", "sign_input", "sign_release"}))
    => /\ Len(out) >= 5
       /\ SubSeq(out, 1, 5) =
             <<Line("script"), Line("script-type"), Line("inputindex"),
               Line("sighashtype"), Line("hash")>>
       /\ pc # "crashed" => stdout = out

\* the key was evaluated and found invalid: the five lines stand before the
\* error on stdout
C10_Witness ==
    /\ cmd.name = "sign" /\ KeyEvaluated /\ pc = "exited"
    /\ pkey.set
    /\ stdout = <<Line("script"), Line("script-type"), Line("inputindex"),
                  Line("sighashtype"), Line("hash"),
                  ErrLine("Invalid wif privkey\n")>>

\* the signing primitive returned a result other than BTC_SIGN_OK
SignErrorReported == Printed(Line("!!!Sign error"))

\* the lines of a sign run whose signing primitive failed
SignErrorOutput ==
    <<Line("script"), Line("script-type"), Line("inputindex"),
      Line("sighashtype"), Line("hash"), Line("!!!Sign error"),
      Line("Signature created"), Line("signature compact"),
      Line("signature DER (+hashtype)"), Line("signed TX")>>

SignErrorCompleted ==
    /\ pc = "exited"
    /\ exitcode = 0
    /\ ecc = <<"start", "stop">>
    /\ heap["tx"] = "freed"
    /\ out = SignErrorOutput

\* C11: in sign with a key that decodes, a result of the signing primitive
\* other than BTC_SIGN_OK is printed as a Sign error line and is not fatal:
\* the signature fields and the re-serialised transaction are printed after
\* it, no Error line is, and the run goes on to release the transaction,
\* stop the context and exit with status 0
C11_SignErrorNotFatal ==
    /\ [](SignErrorReported =>
            /\ cmd.name = "sign" /\ "key" \in sensitive
            /\ Called("btc_tx_serialize")
            /\ out = SignErrorOutput
            /\ pc \in {"sign_release", "final", "exited"}
            /\ pc \in {"final", "exited"} => heap["tx"] = "freed"
            /\ pc = "exited" => (exitcode = 0 /\ ecc = <<"start", "stop">>))
    /\ (SignErrorReported ~> SignErrorCompleted)

\* a sign run whose signing primitive failed has exited with status 0
C11_Witness == SignErrorReported /\ SignErrorCompleted

\* the text given with -a, once getopt has returned it
SuppliedAmount ==
    {argv[k].text : k \in {j \in 1..Len(argv) : j < optind /\ argv[j].o = "a"}}

\* t is the decimal numeral of an integer in [0, 2^64 - 1]
IsUnsigned64(t) ==
    t # <<>> /\ AllDigits(t) /\ ~Accumulate(t, Zero64, FALSE).ovf

\* that integer, as four 16-bit limbs
Unsigned64(t) == Accumulate(t, Zero64, FALSE).m

\* the amount argument a primitive of sign was called with
AmountHanded(f) == sigargs[f].amount

\* C12: the amount the signing primitive is called with is the integer
\* given with -a, for every integer in [0, 2^64 - 1], and 0 when no -a is
\* given
C12_AmountPassed ==
    sigargs["btc_tx_sign_input"].called =>
        /\ SuppliedAmount = {} => AmountHanded("btc_tx_sign_input") = Zero64
        /\ \A t \in SuppliedAmount :
              IsUnsigned64(t) => AmountHanded("btc_tx_sign_input") = Unsigned64(t)

\* the amount of the request: the value the program holds for it
RequestAmount == amount

\* C13: the signature hash that sign computes and prints is the hash for
\* the request's script, input index, sighash type and amount: the
\* primitive that computes it is called with the request's input index,
\* sighash type and amount
C13_HashOfRequest ==
    sigargs["btc_tx_sighash"].called =>
        /\ sigargs["btc_tx_sighash"].inputindex = inputindex
        /\ sigargs["btc_tx_sighash"].sighashtype = sighashtype
        /\ AmountHanded("btc_tx_sighash") = RequestAmount

\* a numeral of the marker has no digit, or its brackets are not both square
EmptyNumeral(s) == ValidMarker(s) /\ ~NumeralsPresent(s)

MixedBrackets(s) ==
    LET m == MarkerOf(s)
    IN ValidMarker(s) /\ <<s[m[1]], s[m[3]]>> # <<"[", "]">>

\* h begins with the characters of e
StartsWith(h, e) == Len(h) >= Len(e) /\ SubSeq(h, 1, Len(e)) = e

\* h is the key path kp with its marker replaced by the minimal decimal of n
ExpandedTo(h, kp, n) ==
    \E e \in Len(MarkerPrefix(kp))..Len(h) :
        LET d == SubSeq(h, Len(MarkerPrefix(kp)) + 1, e)
        IN /\ MinimalDecimal(d, n)
           /\ StartsWith(h, MarkerPrefix(kp) \o d \o MarkerSuffix(kp))

\* the range from..to of kp's marker is what went to hd_derive so far: the
\* indices in ascending order from `from`, all of them when the command is
\* through without an error
RangeExpanded(kp, from, to) ==
    /\ pc # "hd_literal"
    /\ Len(handed) <= to - from + 1
    /\ \A k \in 1..Len(handed) : ExpandedTo(handed[k], kp, from + k - 1)
    /\ pc = "final" => Len(handed) = to - from + 1

\* C14: in the marker scan a numeral of no digits reads as 0 and either
\* closing bracket ends a marker opened by either opening bracket: with
\* such a marker the key path is expanded to the indices from..to when
\* from <= to (0..to for an empty from, the index 0 alone when both
\* numerals are empty), and is derived as it stands when from > to (an
\* empty to with from > 0)
C14_EmptyNumeralsAndBrackets ==
    LET kp == keypath.text
    IN (HdRunning /\ (EmptyNumeral(kp) \/ MixedBrackets(kp))) =>
          IF MarkerFrom(kp) <= MarkerTo(kp)
          THEN RangeExpanded(kp, MarkerFrom(kp), MarkerTo(kp))
          ELSE LiteralFallback

\* a marker with an empty from and unlike brackets was expanded to the
\* indices 0..to, to > 0
C14_Witness ==
    LET kp == keypath.text
        m == MarkerOf(kp)
    IN /\ HdRunning /\ pc = "final"
       /\ EmptyNumeral(kp) /\ MixedBrackets(kp)
       /\ m[2] = m[1] + 1 /\ <<kp[m[1]], kp[m[3]]>> \in {<<"[", ")">>, <<"(", "]">>}
       /\ MarkerTo(kp) > 0
       /\ Len(handed) = MarkerTo(kp) + 1

====
